---- MODULE Spec2Model ----
(***************************************************************************)
(* A model of src/src/gcam/util.py: the query pipeline gcam_query (argument *)
(* normalisation, the Xvfb display server, the per-item rewrite / engine   *)
(* invocation / temp-file deletion, the nested try/finally blocks) and the  *)
(* template rewriter rewrite_query with the path helper abspath.            *)
(*                                                                         *)
(* Spec   : gcam_query as a state machine, one action per statement group. *)
(* SpecNorm : the argument normaliser of gcam_query alone, on longer lists. *)
(* SpecRW : rewrite_query as a function of the template content, applied    *)
(*          once and then again to its own output.                          *)
(***************************************************************************)
EXTENDS Integers, Sequences, FiniteSets

VARIABLES
    batchqfiles, dbxmlfiles, outfiles,  \* the three arguments of gcam_query
    qlist, dbxmllist, outlist,          \* the normalised lists
    pc,                                 \* position inside gcam_query
    err,                                \* the exception in flight ("none" if none)
    primary,                            \* first exception raised by a rewrite or an invocation
    result,                             \* "none" | "returned" | "raised"
    disp,                               \* the X display number (0 before it is drawn)
    xvfb,                               \* "none" | "running" | "killed"
    killCount,                          \* number of executions of xvfb.kill()
    ldlibpath,                          \* the LD_LIBRARY_PATH= string ("unset" before it is built)
    idx,                                \* index of the current zip item (0 before the loop)
    tempquery,                          \* the local tempquery: 0 is None, else a temp file id
    ntemp,                              \* number of temp files created by mkstemp so far
    files,                              \* temp files that exist on disk
    owner,                              \* owner[t] = the item whose rewrite created temp file t
    events,                             \* history of external effects, in order
    exited,                             \* whether the last engine run that returned gave status 0:
                                        \* "none" before one, then "zero" | "nonzero"
    rwpc,                               \* position of the rewriter harness
    template,                           \* the template file: its lines, each a list of segments
    rq_dbxml, rq_outfile, rq_inputdir,  \* the other arguments of rewrite_query
    written,                            \* content written by rewrite_query(template, ...)
    rewritten                           \* content written by rewrite_query(written, ...)

gqvars == <<batchqfiles, dbxmlfiles, outfiles, qlist, dbxmllist, outlist, pc, err,
            primary, result, disp, xvfb, killCount, ldlibpath, idx, tempquery,
            ntemp, files, owner, events, exited>>
rwvars == <<rwpc, template, rq_dbxml, rq_outfile, rq_inputdir, written, rewritten>>
vars == <<gqvars, rwvars>>

----------------------------------------------------------------------------
(* Bounds *)

MaxL == 2          \* longest argument list of a batch that is run (Spec)
MaxArgLen == 3     \* longest argument list given to the normaliser alone (SpecNorm)
MaxDisp == 1024    \* random.randint(1,1024)

----------------------------------------------------------------------------
(* Python values of the arguments.  A str has an identity n: 0 is the str   *)
(* passed directly as an argument, k >= 1 is the k-th element of a list.    *)
(* A list argument of length n holds the strs 1..n.                         *)

Str(k) == [kind |-> "str", n |-> k]
List(n) == [kind |-> "list", n |-> n]

\* hasattr(v, '__iter__'): true of a list, false of a Python 2 str
HasIter(v) == v.kind = "list"

\* isinstance(v, str)
IsStr(v) == v.kind = "str"

\* the elements of a list argument, as a sequence
Items(v) == [k \in 1..v.n |-> Str(k)]

\* s * n for a list s of length 1 (and for any s when n <= 1)
Repeat(s, n) == IF n = 0 THEN <<>> ELSE [k \in 1..(n * Len(s)) |-> s[((k - 1) % Len(s)) + 1]]

\* the forms of an argument: a filename, or a list of at most n filenames
ArgValues(n) == {Str(0)} \cup {List(k) : k \in 0..n}

----------------------------------------------------------------------------
(* Argument normaliser, util.py lines 128-147 *)

NormQ(bq) == IF HasIter(bq) /\ ~IsStr(bq) THEN Items(bq) ELSE <<bq>>

\* NormDb with the length-1 branch of lines 135-136 left out
NormDb_NoListBroadcast(bq, db) ==
    IF HasIter(db) /\ ~IsStr(bq) THEN Items(db) ELSE Repeat(<<db>>, Len(NormQ(bq)))

NormDb(bq, db) ==
    IF HasIter(db) /\ ~IsStr(bq)
    THEN (IF db.n = 1 THEN Repeat(Items(db), Len(NormQ(bq))) ELSE Items(db))
    ELSE Repeat(<<db>>, Len(NormQ(bq)))

NormOut(bq, out) == IF HasIter(out) /\ ~IsStr(bq) THEN Items(out) ELSE <<out>>

Mismatch(bq, db, out) ==
    \/ Len(NormDb(bq, db)) # Len(NormQ(bq))
    \/ Len(NormOut(bq, out)) # Len(NormQ(bq))

----------------------------------------------------------------------------
(* Exceptions and the event history *)

NoErr == [at |-> "none", item |-> 0]
Exc(at, item) == [at |-> at, item |-> item]

Event(ev, item, tmp) ==
    [ev |-> ev, item |-> item, tmp |-> tmp, disp |-> disp,
     q   |-> IF item = 0 THEN NoErr ELSE qlist[item],
     db  |-> IF item = 0 THEN NoErr ELSE dbxmllist[item],
     out |-> IF item = 0 THEN NoErr ELSE outlist[item]]

Min(a, b) == IF a < b THEN a ELSE b

\* number of triples zip(qlist, dbxmllist, outlist) yields
ZipLen == Min(Len(qlist), Min(Len(dbxmllist), Len(outlist)))

\* what rewrite_query leaves behind: whether it returned, and the bytes it wrote
Outcome(ok, content) == [ok |-> ok, content |-> content]

RWIdle ==
    /\ rwpc = "off"
    /\ template = [lines |-> <<>>, lastnl |-> FALSE]
    /\ rq_dbxml = <<>>
    /\ rq_outfile = <<>>
    /\ rq_inputdir = <<>>
    /\ written = Outcome(TRUE, <<>>)
    /\ rewritten = Outcome(TRUE, <<>>)

\* the call gcam_query(batchqfiles, dbxmlfiles, inputdir, outfiles), arguments in S
Called(S) ==
    /\ batchqfiles \in S
    /\ dbxmlfiles \in S
    /\ outfiles \in S
    /\ qlist = <<>>
    /\ dbxmllist = <<>>
    /\ outlist = <<>>
    /\ pc = "call"
    /\ err = NoErr
    /\ primary = NoErr
    /\ result = "none"
    /\ disp = 0
    /\ xvfb = "none"
    /\ killCount = 0
    /\ ldlibpath = "unset"
    /\ idx = 0
    /\ tempquery = 0
    /\ ntemp = 0
    /\ files = {}
    /\ owner = <<>>
    /\ events = <<>>
    /\ exited = "none"
    /\ RWIdle

Init == Called(ArgValues(MaxL))

----------------------------------------------------------------------------
(* gcam_query, util.py lines 107-190 *)

\* lines 128-147: build the three lists, raise RuntimeError on a length mismatch
Normalize ==
    /\ pc = "call"
    /\ qlist' = NormQ(batchqfiles)
    /\ dbxmllist' = NormDb(batchqfiles, dbxmlfiles)
    /\ outlist' = NormOut(batchqfiles, outfiles)
    /\ IF Mismatch(batchqfiles, dbxmlfiles, outfiles)
       THEN /\ err' = Exc("mismatch", 0)
            /\ result' = "raised"
            /\ pc' = "done"
       ELSE /\ pc' = "fetch"
            /\ UNCHANGED <<err, result>>
    /\ UNCHANGED <<batchqfiles, dbxmlfiles, outfiles, primary, disp, xvfb, killCount,
                   ldlibpath, idx, tempquery, ntemp, files, owner, events, exited, rwvars>>

\* lines 149-151: global_params.fetch() and the two lookups; any of them may raise
FetchParams ==
    /\ pc = "fetch"
    /\ \E ok \in BOOLEAN :
         IF ok
         THEN /\ pc' = "popen"
              /\ UNCHANGED <<err, result>>
         ELSE /\ err' = Exc("fetch", 0)
              /\ result' = "raised"
              /\ pc' = "done"
    /\ UNCHANGED <<batchqfiles, dbxmlfiles, outfiles, qlist, dbxmllist, outlist, primary,
                   disp, xvfb, killCount, ldlibpath, idx, tempquery, ntemp, files, owner,
                   events, exited, rwvars>>

\* lines 159-162: draw the display number, Popen(['Xvfb', ...]); Popen may raise OSError
StartXvfb ==
    /\ pc = "popen"
    /\ \E d \in 1..MaxDisp, ok \in BOOLEAN :
         /\ disp' = d
         /\ IF ok
            THEN /\ xvfb' = "running"
                 /\ events' = Append(events, [Event("start", 0, 0) EXCEPT !.disp = d])
                 /\ pc' = "env"
                 /\ UNCHANGED <<err, result>>
            ELSE /\ err' = Exc("popen", 0)
                 /\ result' = "raised"
                 /\ pc' = "done"
                 /\ UNCHANGED <<xvfb, events>>
    /\ UNCHANGED <<batchqfiles, dbxmlfiles, outfiles, qlist, dbxmllist, outlist, primary,
                   killCount, ldlibpath, idx, tempquery, ntemp, files, owner, exited, rwvars>>

\* lines 163-168: inside the outer try, build the LD_LIBRARY_PATH= string
BuildLdLibPath ==
    /\ pc = "env"
    /\ \E o \in {"unset", "set", "raise"} :
         IF o = "raise"
         THEN /\ err' = Exc("env", 0)
              /\ pc' = "finally"
              /\ UNCHANGED ldlibpath
         ELSE /\ ldlibpath' = IF o = "unset" THEN "DBXMLlib" ELSE "old:DBXMLlib"
              /\ pc' = "loop"
              /\ UNCHANGED err
    /\ UNCHANGED <<batchqfiles, dbxmlfiles, outfiles, qlist, dbxmllist, outlist, primary,
                   result, disp, xvfb, killCount, idx, tempquery, ntemp, files, owner,
                   events, exited, rwvars>>

\* lines 170-173: the for statement takes the next triple and sets tempquery = None
LoopHead ==
    /\ pc = "loop"
    /\ IF idx < ZipLen
       THEN /\ idx' = idx + 1
            /\ tempquery' = 0
            /\ pc' = "rewrite"
       ELSE /\ pc' = "finally"
            /\ UNCHANGED <<idx, tempquery>>
    /\ UNCHANGED <<batchqfiles, dbxmlfiles, outfiles, qlist, dbxmllist, outlist, err,
                   primary, result, disp, xvfb, killCount, ldlibpath, ntemp, files, owner,
                   events, exited, rwvars>>

\* an exception leaves the inner try body: it becomes the exception in flight
RaiseInItem(at) ==
    /\ err' = Exc(at, idx)
    /\ primary' = Exc(at, idx)
    /\ pc' = "itemfinally"

\* line 175 with lines 218-250: tempquery = rewrite_query(query, dbxml, inputdir, output).
\* mkstemp (218) may raise before a file exists; once it has returned the file
\* exists, and open (223), the str concatenations (226-227, TypeError when the
\* operand is a list), the copy loop (229-247) may raise; only the return at
\* 250 hands the name to gcam_query.
RewriteQuery ==
    /\ pc = "rewrite"
    /\ \E o \in {"mkstemp", "open", "loop", "ok"} :
         IF o = "mkstemp"
         THEN /\ RaiseInItem("rewrite")
              /\ UNCHANGED <<tempquery, ntemp, files, owner, events>>
         ELSE /\ ntemp' = ntemp + 1
              /\ files' = files \cup {ntemp + 1}
              /\ owner' = Append(owner, idx)
              /\ events' = Append(events, Event("create", idx, ntemp + 1))
              /\ IF \/ o \in {"open", "loop"}
                    \/ ~IsStr(dbxmllist[idx])
                    \/ ~IsStr(outlist[idx])
                 THEN /\ RaiseInItem("rewrite")
                      /\ UNCHANGED tempquery
                 ELSE /\ tempquery' = ntemp + 1
                      /\ pc' = "invoke"
                      /\ UNCHANGED <<err, primary>>
    /\ UNCHANGED <<batchqfiles, dbxmlfiles, outfiles, qlist, dbxmllist, outlist, result,
                   disp, xvfb, killCount, ldlibpath, idx, exited, rwvars>>

\* what subprocess.call can return: the exit status of the child, 0..255, or
\* minus the number of the signal that killed it
ExitStatuses == (0..255) \cup {-sig : sig \in 1..64}

\* the code drops the value subprocess.call returns (line 179 is an expression
\* statement); the model keeps only whether it was 0
StatusClass(st) == IF st = 0 THEN "zero" ELSE "nonzero"

\* the ways subprocess.call(execlist) ends: with a status, or raising OSError
CallOutcomes == {StatusClass(st) : st \in ExitStatuses} \cup {"raise"}

\* lines 176-179: subprocess.call(execlist) waits for the engine and returns its
\* exit status, which is dropped; it raises OSError when the program cannot be run
Invoke ==
    /\ pc = "invoke"
    /\ \E o \in CallOutcomes :
         IF o = "raise"
         THEN /\ events' = Append(events, Event("raise", idx, tempquery))
              /\ RaiseInItem("invoke")
              /\ UNCHANGED exited
         ELSE /\ events' = Append(events, Event("invoke", idx, tempquery))
              /\ exited' = o
              /\ pc' = "itemfinally"
              /\ UNCHANGED <<err, primary>>
    /\ UNCHANGED <<batchqfiles, dbxmlfiles, outfiles, qlist, dbxmllist, outlist, result,
                   disp, xvfb, killCount, ldlibpath, idx, tempquery, ntemp, files, owner,
                   rwvars>>

\* AfterItemFinally without the outer try/finally: an exception leaves at once
AfterItemFinally_NoOuterFinally(e) == IF e = NoErr THEN "loop" ELSE "done"

\* AfterItemFinally with the exception swallowed: the loop goes on
AfterItemFinally_Swallow(e) == "loop"

\* where control goes after the inner finally block, given the exception in flight
AfterItemFinally(e) == IF e = NoErr THEN "loop" ELSE "finally"

\* ItemFinally without the os.unlink call
ItemFinally_NoUnlink ==
    /\ pc = "itemfinally"
    /\ pc' = AfterItemFinally(err)
    /\ UNCHANGED <<batchqfiles, dbxmlfiles, outfiles, qlist, dbxmllist, outlist, err, primary,
                   result, disp, xvfb, killCount, ldlibpath, idx, tempquery, ntemp, files,
                   owner, events, exited, rwvars>>

\* lines 181-183: if tempquery: os.unlink(tempquery).  unlink removes the file, or
\* raises OSError (the file is kept, or was already gone); an exception raised here
\* replaces the one in flight
ItemFinally ==
    /\ pc = "itemfinally"
    /\ IF tempquery # 0
       THEN \E o \in {"ok", "raise_kept", "raise_gone"} :
              /\ files' = IF o = "raise_kept" THEN files ELSE files \ {tempquery}
              /\ events' = IF o = "ok" THEN Append(events, Event("delete", idx, tempquery))
                           ELSE events
              /\ err' = IF o = "ok" THEN err ELSE Exc("unlink", idx)
       ELSE UNCHANGED <<files, events, err>>
    /\ pc' = AfterItemFinally(err')
    /\ UNCHANGED <<batchqfiles, dbxmlfiles, outfiles, qlist, dbxmllist, outlist, primary,
                   result, disp, xvfb, killCount, ldlibpath, idx, tempquery, ntemp, owner,
                   exited, rwvars>>

\* lines 184-185: the outer finally runs xvfb.kill(); kill may raise OSError, which
\* replaces the exception in flight; then the exception in flight, if any, leaves
\* gcam_query
XvfbKill ==
    /\ pc = "finally"
    /\ killCount' = killCount + 1
    /\ xvfb' = "killed"
    /\ events' = Append(events, Event("stop", 0, 0))
    /\ \E ok \in BOOLEAN : err' = IF ok THEN err ELSE Exc("kill", 0)
    /\ IF err' = NoErr
       THEN /\ pc' = "return"
            /\ UNCHANGED result
       ELSE /\ pc' = "done"
            /\ result' = "raised"
    /\ UNCHANGED <<batchqfiles, dbxmlfiles, outfiles, qlist, dbxmllist, outlist, primary,
                   disp, ldlibpath, idx, tempquery, ntemp, files, owner, exited, rwvars>>

\* line 190: return outlist
ReturnOutlist ==
    /\ pc = "return"
    /\ result' = "returned"
    /\ pc' = "done"
    /\ UNCHANGED <<batchqfiles, dbxmlfiles, outfiles, qlist, dbxmllist, outlist, err,
                   primary, disp, xvfb, killCount, ldlibpath, idx, tempquery, ntemp, files,
                   owner, events, exited, rwvars>>

Next ==
    \/ Normalize
    \/ FetchParams
    \/ StartXvfb
    \/ BuildLdLibPath
    \/ LoopHead
    \/ RewriteQuery
    \/ Invoke
    \/ ItemFinally
    \/ XvfbKill
    \/ ReturnOutlist

Spec == Init /\ [][Next]_vars

\* the normaliser alone (lines 128-147), on longer argument lists
InitNorm == Called(ArgValues(MaxArgLen))

NextNorm == Normalize

SpecNorm == InitNorm /\ [][NextNorm]_vars

----------------------------------------------------------------------------
(* Text.  A string is a sequence of tokens: the characters "/", ".", " ",    *)
(* letters, the newline "\n", and each tag of a descriptor as one token.     *)

MaxLines == 2      \* most lines of a template

NL == "\n"
DBO == "<xmldbLocation>"
DBC == "</xmldbLocation>"
OFO == "<outFile>"
OFC == "</outFile>"
QFO == "<queryFile>"
QFC == "</queryFile>"

\* the value None of an optional str argument
None == <<"None">>

\* os.getcwd()
Cwd == <<"/", "w">>

Positions(s, tok) == {i \in 1..Len(s) : s[i] = tok}
SetMin(S) == CHOOSE m \in S : \A x \in S : m <= x
SetMax(S) == CHOOSE m \in S : \A x \in S : m >= x

StartsWith(s, pre) == Len(s) >= Len(pre) /\ SubSeq(s, 1, Len(pre)) = pre
EndsWith(s, suf) == Len(s) >= Len(suf) /\ SubSeq(s, Len(s) - Len(suf) + 1, Len(s)) = suf

\* path.split('/')
RECURSIVE SplitSlash(_)
SplitSlash(p) ==
    IF Positions(p, "/") = {} THEN <<p>>
    ELSE LET k == SetMin(Positions(p, "/"))
         IN <<SubSeq(p, 1, k - 1)>> \o SplitSlash(SubSeq(p, k + 1, Len(p)))

\* '/'.join(comps)
RECURSIVE JoinSlash(_)
JoinSlash(comps) ==
    IF comps = <<>> THEN <<>>
    ELSE IF Len(comps) = 1 THEN comps[1]
    ELSE comps[1] \o <<"/">> \o JoinSlash(Tail(comps))

\* the loop of posixpath.normpath over the components
RECURSIVE NormComps(_, _, _)
NormComps(comps, new, rooted) ==
    IF comps = <<>> THEN new
    ELSE LET c == Head(comps)
             dd == <<".", ".">>
         IN IF c = <<>> \/ c = <<".">> THEN NormComps(Tail(comps), new, rooted)
            ELSE IF c # dd \/ (~rooted /\ new = <<>>) \/ (new # <<>> /\ new[Len(new)] = dd)
                 THEN NormComps(Tail(comps), Append(new, c), rooted)
            ELSE IF new # <<>>
                 THEN NormComps(Tail(comps), SubSeq(new, 1, Len(new) - 1), rooted)
            ELSE NormComps(Tail(comps), new, rooted)

\* posixpath.normpath
Normpath(p) ==
    IF p = <<>> THEN <<".">>
    ELSE LET slashes == IF StartsWith(p, <<"/", "/">>) /\ ~StartsWith(p, <<"/", "/", "/">>)
                        THEN <<"/", "/">>
                        ELSE IF StartsWith(p, <<"/">>) THEN <<"/">> ELSE <<>>
             body == JoinSlash(NormComps(SplitSlash(p), <<>>, slashes # <<>>))
         IN IF slashes \o body = <<>> THEN <<".">> ELSE slashes \o body

\* os.path.join(a, b)
OsPathJoin(a, b) ==
    IF StartsWith(b, <<"/">>) THEN b
    ELSE IF a = <<>> \/ EndsWith(a, <<"/">>) THEN a \o b
    ELSE a \o <<"/">> \o b

\* os.path.abspath(filename)
OsPathAbspath(filename) ==
    Normpath(IF StartsWith(filename, <<"/">>) THEN filename ELSE OsPathJoin(Cwd, filename))

\* Basename that keeps the directory part
Basename_KeepDir(p) == p

\* the tokens that hold a slash, and the text of each after its last slash
HasSlash(tok) == tok \in {"/", DBC, OFC, QFC, "<foo/>"}

AfterSlash(tok) ==
    IF tok = "/" THEN <<>>
    ELSE IF tok = DBC THEN <<"xmldbLocation>">>
    ELSE IF tok = OFC THEN <<"outFile>">>
    ELSE IF tok = QFC THEN <<"queryFile>">>
    ELSE <<">">>

\* os.path.basename(p), line 243: what follows the last slash of the text
Basename(p) ==
    LET ps == {i \in 1..Len(p) : HasSlash(p[i])}
    IN IF ps = {} THEN p
       ELSE AfterSlash(p[SetMax(ps)]) \o SubSeq(p, SetMax(ps) + 1, Len(p))

\* abspath(filename, defaultpath), lines 276-300; filename[0] raises IndexError on ''
Abspath(filename, defaultpath) ==
    IF filename = <<>> THEN Outcome(FALSE, <<>>)
    ELSE IF filename[1] = "/" THEN Outcome(TRUE, filename)
    ELSE IF \/ defaultpath = None
            \/ StartsWith(filename, <<".", "/">>)
            \/ StartsWith(filename, <<".", ".", "/">>)
         THEN Outcome(TRUE, OsPathAbspath(filename))
    ELSE Outcome(TRUE, OsPathJoin(defaultpath, filename))

----------------------------------------------------------------------------
(* rewrite_query on the content of its template, util.py lines 194-250 *)

\* for line in origquery: the lines of a file, each with its terminator
RECURSIVE FileLines(_)
FileLines(c) ==
    IF c = <<>> THEN <<>>
    ELSE IF Positions(c, NL) = {} THEN <<c>>
    ELSE LET k == SetMin(Positions(c, NL))
         IN <<SubSeq(c, 1, k)>> \o FileLines(SubSeq(c, k + 1, Len(c)))

\* the text of a line that '.' can match: up to the terminator
Dotted(line) == IF Positions(line, NL) = {} THEN Len(line) ELSE SetMin(Positions(line, NL)) - 1

\* re.search of open.*close in a line: <<first, last>> token of the leftmost
\* match, '.*' being greedy; <<0, 0>> when there is none
Search(open, close, line) ==
    LET cs == {c \in Positions(line, close) : c <= Dotted(line)}
        ps == {p \in Positions(line, open) : \E c \in cs : c > p}
    IN IF ps = {} THEN <<0, 0>> ELSE <<SetMin(ps), SetMax(cs)>>

\* pattern.sub(repl, line) for a pattern open.*close, lines 231 and 233
Sub(open, close, repl, line) ==
    LET m == Search(open, close, line)
    IN IF m = <<0, 0>> THEN line
       ELSE SubSeq(line, 1, m[1] - 1) \o repl \o SubSeq(line, m[2] + 1, Len(line))

\* lines 237-245: the line that replaces one in which qfileloc matches
QueryFileLine(qfile) == <<QFO>> \o qfile \o <<QFC>>

\* lines 231-245: the body of the copy loop for one line
RewriteLine(line, dbxml, inputdir, outfile) ==
    LET l1 == Sub(DBO, DBC, <<DBO>> \o dbxml \o <<DBC>>, line)
        l2 == Sub(OFO, OFC, <<OFO>> \o outfile \o <<OFC>>, l1)
        m  == Search(QFO, QFC, l2)
    IN IF m = <<0, 0>> THEN Outcome(TRUE, l2)
       ELSE LET qfile_template == SubSeq(l2, m[1] + 1, m[2] - 1)
                qfile == Abspath(Basename(qfile_template), inputdir)
            IN IF qfile.ok THEN Outcome(TRUE, QueryFileLine(qfile.content))
               ELSE Outcome(FALSE, <<>>)

\* lines 229-247: the copy loop; an exception ends it with what was written so far
RECURSIVE CopyLoop(_, _, _, _, _)
CopyLoop(lines, acc, dbxml, inputdir, outfile) ==
    IF lines = <<>> THEN Outcome(TRUE, acc)
    ELSE LET r == RewriteLine(Head(lines), dbxml, inputdir, outfile)
         IN IF r.ok THEN CopyLoop(Tail(lines), acc \o r.content, dbxml, inputdir, outfile)
            ELSE Outcome(FALSE, acc)

\* rewrite_query for a template with content c: the content of the temp file
RewriteContent(c, dbxml, inputdir, outfile) ==
    CopyLoop(FileLines(c), <<>>, dbxml, inputdir, outfile)

----------------------------------------------------------------------------
(* Templates.  A line is a list of segments: text, or one element          *)
(* <tag>body</tag> of a recognised tag.                                     *)

Text(body) == [kind |-> "text", body |-> body]
Elem(kind, body) == [kind |-> kind, body |-> body]

QueryRefs ==
    { <<"/", "a", "/", "x">>,   \* /a/x
      <<".", "/", "x">>,        \* ./x
      <<"a", "/", "x">>,        \* a/x
      <<"x">>,                  \* x
      <<"a", "/">> }            \* a/ : no file name

TemplateLines ==
    { <<>>,
      <<Text(<<" ">>), Text(<<"<foo/>">>)>>,
      <<Elem("db", <<"a">>)>>,
      <<Text(<<" ">>), Elem("db", <<"a">>), Text(<<"t">>)>>,
      <<Elem("out", <<"a">>)>>,
      <<Text(<<" ">>), Elem("out", <<"a">>), Text(<<"t">>)>>,
      <<Elem("db", <<"a">>), Elem("out", <<"a">>)>>,
      <<Text(<<" ">>), Elem("qf", <<"/", "a", "/", "x">>), Text(<<"t">>)>>,
      <<Elem("qf", <<"a", "/", "x">>), Elem("db", <<"a">>)>>,
      <<Elem("out", <<"a">>), Elem("qf", <<"x">>)>> }
    \cup { <<Elem("qf", r)>> : r \in QueryRefs }

Templates ==
    { [lines |-> ls, lastnl |-> nl] :
        ls \in UNION { [1..n -> TemplateLines] : n \in 0..MaxLines }, nl \in BOOLEAN }

InputDirs == { <<"/", "i">>, <<"i", "/">>, None }

OpenTag(kind) == IF kind = "db" THEN DBO ELSE IF kind = "out" THEN OFO ELSE QFO
CloseTag(kind) == IF kind = "db" THEN DBC ELSE IF kind = "out" THEN OFC ELSE QFC

SegText(seg) ==
    IF seg.kind = "text" THEN seg.body
    ELSE <<OpenTag(seg.kind)>> \o seg.body \o <<CloseTag(seg.kind)>>

RECURSIVE Concat(_)
Concat(ss) == IF ss = <<>> THEN <<>> ELSE Head(ss) \o Concat(Tail(ss))

\* the bytes of a template file: every line but the last ends in a newline, the
\* last one does if lastnl
FileContent(t) ==
    Concat([i \in 1..Len(t.lines) |->
              Concat([j \in 1..Len(t.lines[i]) |-> SegText(t.lines[i][j])])
              \o (IF i < Len(t.lines) \/ t.lastnl THEN <<NL>> ELSE <<>>)])

GQIdle ==
    /\ batchqfiles = Str(0)
    /\ dbxmlfiles = Str(0)
    /\ outfiles = Str(0)
    /\ qlist = <<>>
    /\ dbxmllist = <<>>
    /\ outlist = <<>>
    /\ pc = "off"
    /\ err = NoErr
    /\ primary = NoErr
    /\ result = "none"
    /\ disp = 0
    /\ xvfb = "none"
    /\ killCount = 0
    /\ ldlibpath = "unset"
    /\ idx = 0
    /\ tempquery = 0
    /\ ntemp = 0
    /\ files = {}
    /\ owner = <<>>
    /\ events = <<>>
    /\ exited = "none"

InitRW ==
    /\ GQIdle
    /\ rwpc = "start"
    /\ template \in Templates
    /\ rq_dbxml = <<"d">>
    /\ rq_outfile = <<"o">>
    /\ rq_inputdir \in InputDirs
    /\ written = Outcome(TRUE, <<>>)
    /\ rewritten = Outcome(TRUE, <<>>)

\* rewrite_query(template, dbxml, inputdir, outfile)
RewriteOnce ==
    /\ rwpc = "start"
    /\ written' = RewriteContent(FileContent(template), rq_dbxml, rq_inputdir, rq_outfile)
    /\ rwpc' = "once"
    /\ UNCHANGED <<template, rq_dbxml, rq_outfile, rq_inputdir, rewritten, gqvars>>

\* rewrite_query(the file written by the first call, dbxml, inputdir, outfile)
RewriteAgain ==
    /\ rwpc = "once"
    /\ written.ok
    /\ rewritten' = RewriteContent(written.content, rq_dbxml, rq_inputdir, rq_outfile)
    /\ rwpc' = "twice"
    /\ UNCHANGED <<template, rq_dbxml, rq_outfile, rq_inputdir, written, gqvars>>

NextRW ==
    \/ RewriteOnce
    \/ RewriteAgain

SpecRW == InitRW /\ [][NextRW]_vars

----------------------------------------------------------------------------
(* Properties of gcam_query, checked under Spec *)

\* the number of queries the caller passed
QueryCount == IF batchqfiles.kind = "list" THEN batchqfiles.n ELSE 1

Normalized == pc \notin {"call", "off"}

\* C1: a temp file created for an item no longer exists once gcam_query has left
\* that item (so none exists after gcam_query has returned or raised), whatever
\* the rewrite, the invocation and the deletion did.
C1_TempFilesRemoved ==
    \A t \in files : owner[t] = idx /\ pc \in {"invoke", "itemfinally"}

\* C2: once Popen has returned a handle, xvfb.kill() is executed exactly once on
\* every exit path of gcam_query; it is never executed twice, and never when the
\* display server was not started.
C2_KillExactlyOnce ==
    /\ killCount <= 1
    /\ (killCount = 1) <=> (xvfb = "killed")
    /\ (xvfb = "none") => (killCount = 0)
    /\ (pc = "done" /\ xvfb # "none") => (killCount = 1)

C2_Witness ==
    /\ pc = "done"
    /\ killCount = 1
    /\ primary = Exc("rewrite", 1)
    /\ ZipLen = 2

\* C3 as stated: for L >= 1, a database input that is a scalar, a length-1 list or
\* a length-L list, and an output input that is a scalar or a length-L list,
\* normalise to three lists of length L without the mismatch error.
C3_Original ==
    (/\ Normalized
     /\ QueryCount >= 1
     /\ dbxmlfiles.kind = "str" \/ dbxmlfiles.n \in {1, QueryCount}
     /\ outfiles.kind = "str" \/ outfiles.n = QueryCount)
    => /\ err.at # "mismatch"
       /\ Len(qlist) = QueryCount
       /\ Len(dbxmllist) = QueryCount
       /\ Len(outlist) = QueryCount

\* C3 amended: the same with the output input a length-L list, or a scalar when
\* L = 1; a scalar output with two or more queries in a list raises the mismatch.
C3_Broadcast ==
    /\ (/\ Normalized
        /\ QueryCount >= 1
        /\ dbxmlfiles.kind = "str" \/ dbxmlfiles.n \in {1, QueryCount}
        /\ \/ outfiles.kind = "list" /\ outfiles.n = QueryCount
           \/ outfiles.kind = "str" /\ QueryCount = 1)
       => /\ err.at # "mismatch"
          /\ Len(qlist) = QueryCount
          /\ Len(dbxmllist) = QueryCount
          /\ Len(outlist) = QueryCount
    /\ (Normalized /\ QueryCount >= 2 /\ outfiles.kind = "str")
       => /\ err.at = "mismatch"
          /\ Len(outlist) = 1

C3_Witness ==
    /\ pc = "fetch"
    /\ batchqfiles = List(3)
    /\ dbxmlfiles = List(1)
    /\ outfiles = List(3)
    /\ dbxmllist = <<Str(1), Str(1), Str(1)>>

\* C4: inputs that cannot be broadcast (a database list of length neither 1 nor L,
\* an output list of length other than L) raise the mismatch error before the
\* display server is started, a temp file is created or the engine is invoked.
C4_MismatchFirst ==
    (/\ Normalized
     /\ \/ dbxmlfiles.kind = "list" /\ dbxmlfiles.n \notin {1, QueryCount}
        \/ outfiles.kind = "list" /\ outfiles.n # QueryCount)
    => /\ err.at = "mismatch"
       /\ xvfb = "none"
       /\ ntemp = 0
       /\ events = <<>>

\* C6: when the rewrite or the invocation of an item raised E, the error that
\* leaves gcam_query is E, whatever os.unlink and xvfb.kill do afterwards.
C6_PrimarySurfaced ==
    (pc = "done" /\ primary # NoErr) => (err = primary)

\* C8: when the rewrite or the invocation of item i raises, gcam_query ends by
\* raising, never by returning outlist, and nothing is created or invoked for an
\* item after i; an engine run that exits non-zero raises nothing, and the batch
\* stops early only on an exception.
C8_ErrorStopsBatch ==
    /\ (primary # NoErr) =>
          /\ result # "returned"
          /\ pc = "done" => result = "raised"
          /\ pc \in {"itemfinally", "finally", "done"}
          /\ idx = primary.item
          /\ \A k \in DOMAIN events : events[k].item <= primary.item
    /\ \A k \in DOMAIN events :
          events[k].ev = "invoke" =>
             /\ primary.item # events[k].item
             /\ (pc = "itemfinally" /\ idx = events[k].item) => (err = NoErr /\ exited \in {"zero", "nonzero"})
    /\ (err = NoErr /\ pc \in {"finally", "return", "done"} /\ xvfb # "none" /\ ldlibpath # "unset")
          => idx = QueryCount

C8_Witness ==
    /\ pc = "done"
    /\ result = "raised"
    /\ QueryCount = 2
    /\ primary = Exc("invoke", 2)
    /\ exited = "nonzero"
    /\ \E k \in DOMAIN events : events[k].ev = "invoke" /\ events[k].item = 1

\* what item i of a batch that can run is made of: query i (or the one query),
\* database i (or the shared one), output i (or the one output)
ItemOf(i) ==
    [q   |-> IF batchqfiles.kind = "list" THEN Str(i) ELSE batchqfiles,
     db  |-> IF dbxmlfiles.kind = "str" THEN dbxmlfiles
             ELSE IF dbxmlfiles.n = 1 THEN Str(1) ELSE Str(i),
     out |-> IF outfiles.kind = "list" THEN Str(i) ELSE outfiles]

RECURSIVE ItemEvents(_)
ItemEvents(n) ==
    IF n = 0 THEN <<>>
    ELSE ItemEvents(n - 1) \o << <<"create", n>>, <<"invoke", n>>, <<"delete", n>> >>

\* the events of a run in the order the claim gives them
Expected(n) == << <<"start", 0>> >> \o ItemEvents(n) \o << <<"stop", 0>> >>

Seen == [k \in DOMAIN events |-> <<events[k].ev, events[k].item>>]

\* C9: in a run in which nothing raises the display server is started once, then
\* each item in input order has its temp file created, the engine invoked on it
\* and the file deleted, then the server is stopped once; at most one temp file
\* exists at a time, the engine runs only while the server runs and on its
\* display, and item i is query i with database i (or the shared one) and output i.
C9_OrderedRun ==
    /\ (pc = "done" /\ result = "returned") =>
          /\ Seen = Expected(QueryCount)
          /\ \A k \in DOMAIN events :
                /\ events[k].disp = disp
                /\ events[k].item # 0 =>
                      /\ events[k].tmp = events[k].item
                      /\ events[k].q = ItemOf(events[k].item).q
                      /\ events[k].db = ItemOf(events[k].item).db
                      /\ events[k].out = ItemOf(events[k].item).out
    /\ (err = NoErr /\ primary = NoErr) =>
          /\ files \subseteq {tempquery}
          /\ \E n \in 0..Len(Expected(QueryCount)) : Seen = SubSeq(Expected(QueryCount), 1, n)
    /\ pc = "invoke" => (xvfb = "running" /\ files = {tempquery} /\ disp \in 1..MaxDisp)

C9_Witness ==
    /\ pc = "done"
    /\ result = "returned"
    /\ QueryCount = 2
    /\ dbxmlfiles = List(1)
    /\ Len(events) = 8

----------------------------------------------------------------------------
(* Properties of rewrite_query, checked under SpecRW *)

Rewrote == rwpc \in {"once", "twice"}

\* the segments of a template, in file order
AllSegs(t) == Concat(t.lines)

IsQueryFile(seg) == seg.kind = "qf"

\* the references of the queryFile elements of a template, in file order
TemplateRefs(t) ==
    LET qs == SelectSeq(AllSegs(t), IsQueryFile) IN [k \in DOMAIN qs |-> qs[k].body]

\* the bodies of the queryFile elements of a file, in file order
RECURSIVE QueryFileBodies(_)
QueryFileBodies(c) ==
    IF Positions(c, QFO) = {} THEN <<>>
    ELSE LET p == SetMin(Positions(c, QFO))
             cs == {e \in Positions(c, QFC) : e > p}
         IN IF cs = {} THEN <<>>
            ELSE <<SubSeq(c, p + 1, SetMin(cs) - 1)>>
                 \o QueryFileBodies(SubSeq(c, SetMin(cs) + 1, Len(c)))

\* the file name of a reference: its longest suffix without a slash
FileName(r) ==
    CHOOSE s \in {SubSeq(r, k, Len(r)) : k \in 1..(Len(r) + 1)} :
        /\ Positions(s, "/") = {}
        /\ Len(s) = Len(r) \/ r[Len(r) - Len(s)] = "/"

\* name inside directory dir
InDir(dir, name) == IF dir[Len(dir)] = "/" THEN dir \o name ELSE dir \o <<"/">> \o name

\* C5: rewriting what rewrite_query wrote, with the same arguments, writes the
\* same bytes again.
C5_Idempotent ==
    (rwpc = "twice") => (rewritten = written)

\* the template with the body of every recognised element replaced and nothing
\* else changed: same lines, same other text, same terminators
Targeted(t) ==
    LET new(seg) ==
          IF seg.kind = "text" THEN seg
          ELSE IF seg.kind = "db" THEN Elem("db", rq_dbxml)
          ELSE IF seg.kind = "out" THEN Elem("out", rq_outfile)
          ELSE Elem("qf", Abspath(Basename(seg.body), rq_inputdir).content)
    IN [t EXCEPT !.lines =
          [i \in DOMAIN t.lines |-> [j \in DOMAIN t.lines[i] |-> new(t.lines[i][j])]]]

\* C7: the output has the lines of the template, a line without a recognised tag
\* unchanged, and on a line with a recognised tag only that element rewritten:
\* the other text of the line and its terminator are kept.
C7_Targeted ==
    (Rewrote /\ written.ok) => (written.content = FileContent(Targeted(template)))

\* C10 as stated: in the rewritten tag a reference /abs/path/x.xml is unchanged,
\* ./x.xml is resolved against the working directory, and any other reference
\* against inputdir.
C10_Original ==
    (Rewrote /\ written.ok /\ rq_inputdir # None) =>
       QueryFileBodies(written.content) =
          [k \in DOMAIN TemplateRefs(template) |->
             LET r == TemplateRefs(template)[k]
             IN IF r[1] = "/" THEN r
                ELSE IF r[1] = "." THEN InDir(Cwd, FileName(r))
                ELSE InDir(rq_inputdir, r)]

\* C10 amended: the rewritten tag holds the file name of the reference, its
\* directory part stripped, inside inputdir (inside the working directory when
\* inputdir is None): /a/x, ./x, a/x and x all become inputdir/x; a reference
\* without a file name makes rewrite_query raise.
C10_Resolved ==
    Rewrote =>
       /\ written.ok <=> (\A k \in DOMAIN TemplateRefs(template) :
                            FileName(TemplateRefs(template)[k]) # <<>>)
       /\ written.ok =>
            QueryFileBodies(written.content) =
               [k \in DOMAIN TemplateRefs(template) |->
                  InDir(IF rq_inputdir = None THEN Cwd ELSE rq_inputdir,
                        FileName(TemplateRefs(template)[k]))]

C10_Witness ==
    /\ rwpc = "once"
    /\ written.ok
    /\ rq_inputdir = <<"/", "i">>
    /\ TemplateRefs(template) = << <<"/", "a", "/", "x">>, <<".", "/", "x">> >>
    /\ QueryFileBodies(written.content) = << <<"/", "i", "/", "x">>, <<"/", "i", "/", "x">> >>

====
